---- MODULE Spec2Model ----
(***************************************************************************)
(* Model of src/models.py: the sample preparation of Model                 *)
(* (inflateBkgWithMasses, equaliseWeights), the batch generator, the two   *)
(* loss-history policies (shouldEarlyStop, shouldSchedulerStep) and the    *)
(* epoch loop of ParamNN.train.                                            *)
(*                                                                         *)
(* The network, its optimizer and the loss functions are outside the       *)
(* model: the per-mass losses that getTotLoss returns are inputs, drawn    *)
(* from small sets.  Loss values are non-negative integers, tol is a       *)
(* fraction n/d, and the comparisons numpy makes on float64 quotients are  *)
(* made on exact fractions (with numpy's inf and nan for a zero divisor).  *)
(***************************************************************************)
EXTENDS Integers, Sequences, FiniteSets, TLC

\* ------------------------------------------------------------------ bounds
MaxEpochsShort == 4     \* max_epochs of the runs with early stopping enabled
MaxEpochsLong == 13     \* max_epochs of the runs that exercise the scheduler
MaxGrace == 2           \* largest grace_epochs drawn
MaxHist == 5            \* longest history handed to shouldEarlyStop alone
MaxRows == 3            \* most events in a sample handed to inflateBkgWithMasses
MaxEvents == 3          \* most events in a sample handed to equaliseWeights
MaxN == 3               \* most events handed to getBatches
MaxBatch == 2           \* largest batch_size

\* ------------------------------------------------------- program constants
SchedulerGap == 5       \* the literal 5 of shouldSchedulerStep
DefaultGrace == 5       \* default grace_epochs of train
DefaultTolDen == 100    \* default tol = 0.01 = 1/100

VARIABLES
    cfg,               \* the arguments of train and the model's train_masses
    pc,                \* position of train within its epoch loop
    i_epoch,           \* loop variable of `for i_epoch in range(max_epochs)`
    k,                 \* position of `for mass in self.train_masses`
    trl, tel,          \* the records being built in the current epoch
    train_loss, test_loss,
    last_step_epoch,   \* self.last_step_epoch
    alreadyPlotting,   \* self.alreadyPlotting
    stepEpochs,        \* epoch counts at which scheduler.step() was called
    state,             \* Running, EarlyStopped, MaxEpochsReached, Interrupted
    exc,               \* exception that left train, or "none"
    ret,               \* what train returned, or <<>> before it returns
    es,                \* shouldEarlyStop called on a growing history: its
                       \* arguments, the history and the last result
    inf,               \* a call of inflateBkgWithMasses: arguments and result
    eq,                \* a call of equaliseWeights: arguments and result
    gb                 \* a getBatches generator: arguments, copies, position
                       \* and the batches yielded so far

trainVars == <<cfg, pc, i_epoch, k, trl, tel, train_loss, test_loss,
               last_step_epoch, alreadyPlotting, stepEpochs, state, exc, ret>>

vars == <<trainVars, es, inf, eq, gb>>

\* ----------------------------------------------------------------- helpers
RECURSIVE SumSeq(_)
SumSeq(s) == IF s = <<>> THEN 0 ELSE Head(s) + SumSeq(Tail(s))

MinSeq(s) == CHOOSE x \in {s[j] : j \in 1..Len(s)} : \A j \in 1..Len(s) : x <= s[j]
MaxSeq(s) == CHOOSE x \in {s[j] : j \in 1..Len(s)} : \A j \in 1..Len(s) : x >= s[j]

\* losses[:,i]
Column(losses, i) == [e \in 1..Len(losses) |-> losses[e][i]]

\* losses.sum(axis=1)
SumAxis1(losses) == [e \in 1..Len(losses) |-> SumSeq(losses[e])]

\* np.where(s == v)[0][0] + 1 : the 1-based position of the first v
FirstWhere(s, v) == CHOOSE j \in 1..Len(s) : s[j] = v /\ \A h \in 1..(j-1) : s[h] # v

\* Python's s[-g:] for g >= 0: -0 is 0, so s[-0:] is all of s
SliceLast(s, g) ==
    IF g = 0 \/ g >= Len(s) THEN s ELSE SubSeq(s, Len(s) - g + 1, Len(s))

\* Python's s[:-g] for g >= 0: s[:-0] is s[:0], the empty sequence
SliceButLast(s, g) ==
    IF g = 0 \/ g >= Len(s) THEN <<>> ELSE SubSeq(s, 1, Len(s) - g)

\* numpy's  num/den > tol  on float64, for den >= 0 and tol = tol.n/tol.d:
\* x/0 is inf for x > 0 (inf > tol), nan for x = 0 (nan > tol is False)
QuotientExceeds(num, den, tol) ==
    IF den = 0 THEN num > 0 ELSE num * tol.d > tol.n * den

\* ------------------------------------------------------------------ policies
\* shouldEarlyStop with the min_epoch guard off by one
shouldEarlyStop_LateGuard(train_masses, losses, min_epoch, grace_epochs, tol) ==
    LET n_epochs == Len(losses)
        slosses == SumAxis1(losses)
        any_unstable ==
            \E i \in 1..Len(train_masses) :
                LET best_loss == MinSeq(Column(losses, i))
                    window == SliceLast(Column(losses, i), grace_epochs)
                    variation == MaxSeq(window) - MinSeq(window)
                IN QuotientExceeds(variation, best_loss, tol)
        best_loss_epoch == FirstWhere(slosses, MinSeq(slosses))
        any_make_good_improvement ==
            \E i \in 1..Len(train_masses) :
                LET best_loss == MinSeq(Column(losses, i))
                    best_loss_before ==
                        MinSeq(SliceButLast(Column(losses, i), grace_epochs))
                IN QuotientExceeds(best_loss_before - best_loss, best_loss, tol)
    IN IF n_epochs < min_epoch - 1 THEN "False"
       ELSE IF n_epochs > grace_epochs /\ any_unstable THEN "False"
       ELSE IF n_epochs - best_loss_epoch > grace_epochs THEN "True"
       ELSE IF n_epochs > grace_epochs
            THEN IF SliceButLast(Column(losses, 1), grace_epochs) = <<>>
                 THEN "ValueError"
                 ELSE IF ~any_make_good_improvement THEN "True" ELSE "False"
       ELSE "False"

\* shouldEarlyStop with the staleness check ahead of the instability check
shouldEarlyStop_StaleFirst(train_masses, losses, min_epoch, grace_epochs, tol) ==
    LET n_epochs == Len(losses)
        slosses == SumAxis1(losses)
        any_unstable ==
            \E i \in 1..Len(train_masses) :
                LET best_loss == MinSeq(Column(losses, i))
                    window == SliceLast(Column(losses, i), grace_epochs)
                    variation == MaxSeq(window) - MinSeq(window)
                IN QuotientExceeds(variation, best_loss, tol)
        best_loss_epoch == FirstWhere(slosses, MinSeq(slosses))
        any_make_good_improvement ==
            \E i \in 1..Len(train_masses) :
                LET best_loss == MinSeq(Column(losses, i))
                    best_loss_before ==
                        MinSeq(SliceButLast(Column(losses, i), grace_epochs))
                IN QuotientExceeds(best_loss_before - best_loss, best_loss, tol)
    IN IF n_epochs < min_epoch THEN "False"
       ELSE IF n_epochs - best_loss_epoch > grace_epochs THEN "True"
       ELSE IF n_epochs > grace_epochs /\ any_unstable THEN "False"
       ELSE IF n_epochs > grace_epochs
            THEN IF SliceButLast(Column(losses, 1), grace_epochs) = <<>>
                 THEN "ValueError"
                 ELSE IF ~any_make_good_improvement THEN "True" ELSE "False"
       ELSE "False"

\* ParamNN.shouldEarlyStop; "ValueError" is the exception numpy raises for the
\* min() of the empty slice losses[:,i][:-0]
shouldEarlyStop(train_masses, losses, min_epoch, grace_epochs, tol) ==
    LET n_epochs == Len(losses)
        slosses == SumAxis1(losses)
        any_unstable ==
            \E i \in 1..Len(train_masses) :
                LET best_loss == MinSeq(Column(losses, i))
                    window == SliceLast(Column(losses, i), grace_epochs)
                    variation == MaxSeq(window) - MinSeq(window)
                IN QuotientExceeds(variation, best_loss, tol)
        best_loss_epoch == FirstWhere(slosses, MinSeq(slosses))
        any_make_good_improvement ==
            \E i \in 1..Len(train_masses) :
                LET best_loss == MinSeq(Column(losses, i))
                    best_loss_before ==
                        MinSeq(SliceButLast(Column(losses, i), grace_epochs))
                IN QuotientExceeds(best_loss_before - best_loss, best_loss, tol)
    IN IF n_epochs < min_epoch THEN "False"
       ELSE IF n_epochs > grace_epochs /\ any_unstable THEN "False"
       ELSE IF n_epochs - best_loss_epoch > grace_epochs THEN "True"
       ELSE IF n_epochs > grace_epochs
            THEN IF SliceButLast(Column(losses, 1), grace_epochs) = <<>>
                 THEN "ValueError"
                 ELSE IF ~any_make_good_improvement THEN "True" ELSE "False"
       ELSE "False"

\* shouldSchedulerStep without the test on self.last_step_epoch
shouldSchedulerStep_NoRateLimit(losses, last) ==
    LET n_epochs == Len(losses)
        slosses == SumAxis1(losses)
        best_loss_epoch == FirstWhere(slosses, MinSeq(slosses))
    IN IF (n_epochs - best_loss_epoch) > SchedulerGap
       THEN [ret |-> TRUE, last_step_epoch |-> n_epochs]
       ELSE [ret |-> FALSE, last_step_epoch |-> last]

\* ParamNN.shouldSchedulerStep: the value returned and self.last_step_epoch
\* after the call
shouldSchedulerStep(losses, last) ==
    LET n_epochs == Len(losses)
        slosses == SumAxis1(losses)
        best_loss_epoch == FirstWhere(slosses, MinSeq(slosses))
    IN IF (n_epochs - best_loss_epoch) > SchedulerGap /\ (n_epochs - last) > SchedulerGap
       THEN [ret |-> TRUE, last_step_epoch |-> n_epochs]
       ELSE [ret |-> FALSE, last_step_epoch |-> last]

\* ---------------------------------------------------------- ParamNN.train
MinEpochs == {1, 2, 3}
Tols == {[n |-> 1, d |-> DefaultTolDen], [n |-> 1, d |-> 2]}

\* runs in which early stopping can fire: few epochs, varied test losses
ShortConfigs ==
    [train_masses : {<<5>>, <<5, 10>>},
     max_epochs : 0..MaxEpochsShort,
     min_epoch : MinEpochs,
     grace_epochs : 0..MaxGrace,
     tol : Tols,
     trainVals : {<<{1}, {1}>>},
     testVals : {<<{1, 2}, {1, 2}>>}]

\* runs with the default grace_epochs and tol that are long enough for the
\* scheduler to step twice: min_epoch lies beyond max_epochs
LongConfigs ==
    [train_masses : {<<5>>, <<5, 10>>},
     max_epochs : {MaxEpochsLong},
     min_epoch : {MaxEpochsLong + 1},
     grace_epochs : {DefaultGrace},
     tol : {[n |-> 1, d |-> DefaultTolDen]},
     trainVals : {<<{1, 2}, {1}>>},
     testVals : {<<{1}, {1}>>}]

Idle == [op |-> "idle"]

InTry == {"batches", "masses", "appendTest", "scheduler", "plot"}

\* lines 287-288 and 315-316: the state when the epoch loop is entered
InitTrain ==
    /\ cfg \in ShortConfigs \cup LongConfigs
    /\ pc = "for"
    /\ i_epoch = -1
    /\ k = 1
    /\ trl = <<>>
    /\ tel = <<>>
    /\ train_loss = <<>>
    /\ test_loss = <<>>
    /\ last_step_epoch = 0
    /\ alreadyPlotting = FALSE
    /\ stepEpochs = <<>>
    /\ state = "Running"
    /\ exc = "none"
    /\ ret = <<>>
    /\ es = Idle /\ inf = Idle /\ eq = Idle /\ gb = Idle

\* line 318: the next i_epoch of range(max_epochs), or the end of the loop
ForEpoch ==
    /\ pc = "for"
    /\ IF i_epoch + 1 < cfg.max_epochs
       THEN /\ i_epoch' = i_epoch + 1
            /\ pc' = "batches"
            /\ state' = state
       ELSE /\ i_epoch' = i_epoch
            /\ pc' = "finish"
            /\ state' = "MaxEpochsReached"
    /\ UNCHANGED <<cfg, k, trl, tel, train_loss, test_loss, last_step_epoch,
                   alreadyPlotting, stepEpochs, exc, ret>>
    /\ UNCHANGED <<es, inf, eq, gb>>

\* lines 322-329: the pass over the shuffled batches, then trl = [], tel = []
TrainBatches ==
    /\ pc = "batches"
    /\ pc' = "masses"
    /\ trl' = <<>>
    /\ tel' = <<>>
    /\ k' = 1
    /\ UNCHANGED <<cfg, i_epoch, train_loss, test_loss, last_step_epoch,
                   alreadyPlotting, stepEpochs, state, exc, ret>>
    /\ UNCHANGED <<es, inf, eq, gb>>

\* lines 330-332: one iteration of `for mass in self.train_masses`
EvalMass ==
    /\ pc = "masses"
    /\ k <= Len(cfg.train_masses)
    /\ \E a \in cfg.trainVals[k], b \in cfg.testVals[k] :
          /\ trl' = Append(trl, a)
          /\ tel' = Append(tel, b)
    /\ k' = k + 1
    /\ UNCHANGED <<cfg, pc, i_epoch, train_loss, test_loss, last_step_epoch,
                   alreadyPlotting, stepEpochs, state, exc, ret>>
    /\ UNCHANGED <<es, inf, eq, gb>>

\* line 333
AppendTrain ==
    /\ pc = "masses"
    /\ k > Len(cfg.train_masses)
    /\ train_loss' = Append(train_loss, trl)
    /\ pc' = "appendTest"
    /\ UNCHANGED <<cfg, i_epoch, k, trl, tel, test_loss, last_step_epoch,
                   alreadyPlotting, stepEpochs, state, exc, ret>>
    /\ UNCHANGED <<es, inf, eq, gb>>

\* line 334
AppendTest ==
    /\ pc = "appendTest"
    /\ test_loss' = Append(test_loss, tel)
    /\ pc' = "scheduler"
    /\ UNCHANGED <<cfg, i_epoch, k, trl, tel, train_loss, last_step_epoch,
                   alreadyPlotting, stepEpochs, state, exc, ret>>
    /\ UNCHANGED <<es, inf, eq, gb>>

\* lines 336-337
SchedulerStep ==
    /\ pc = "scheduler"
    /\ LET r == shouldSchedulerStep(train_loss, last_step_epoch)
       IN /\ last_step_epoch' = r.last_step_epoch
          /\ stepEpochs' = IF r.ret THEN Append(stepEpochs, Len(train_loss))
                                    ELSE stepEpochs
    /\ pc' = "plot"
    /\ UNCHANGED <<cfg, i_epoch, k, trl, tel, train_loss, test_loss,
                   alreadyPlotting, state, exc, ret>>
    /\ UNCHANGED <<es, inf, eq, gb>>

\* line 339
UpdateLossPlot ==
    /\ pc = "plot"
    /\ alreadyPlotting' = TRUE
    /\ pc' = "earlystop"
    /\ UNCHANGED <<cfg, i_epoch, k, trl, tel, train_loss, test_loss,
                   last_step_epoch, stepEpochs, state, exc, ret>>
    /\ UNCHANGED <<es, inf, eq, gb>>

\* lines 345-346, outside the try block
EarlyStopCheck ==
    /\ pc = "earlystop"
    /\ LET r == shouldEarlyStop(cfg.train_masses, test_loss, cfg.min_epoch,
                                cfg.grace_epochs, cfg.tol)
       IN /\ pc' = CASE r = "True" -> "finish"
                     [] r = "False" -> "for"
                     [] OTHER -> "raised"
          /\ state' = IF r = "True" THEN "EarlyStopped" ELSE state
          /\ exc' = IF r = "ValueError" THEN "ValueError" ELSE exc
    /\ UNCHANGED <<cfg, i_epoch, k, trl, tel, train_loss, test_loss,
                   last_step_epoch, alreadyPlotting, stepEpochs, ret>>
    /\ UNCHANGED <<es, inf, eq, gb>>

\* A KeyboardInterrupt raised inside the try block (lines 319-342): break
InterruptInTry ==
    /\ pc \in InTry
    /\ pc' = "finish"
    /\ state' = "Interrupted"
    /\ UNCHANGED <<cfg, i_epoch, k, trl, tel, train_loss, test_loss,
                   last_step_epoch, alreadyPlotting, stepEpochs, exc, ret>>
    /\ UNCHANGED <<es, inf, eq, gb>>

\* A KeyboardInterrupt raised in the loop but outside the try block (the
\* early-stop check of lines 345-346, the loop header of line 318 between two
\* epochs): nothing catches it
InterruptOutsideTry ==
    /\ pc = "earlystop" \/ (pc = "for" /\ i_epoch >= 0)
    /\ pc' = "raised"
    /\ exc' = "KeyboardInterrupt"
    /\ UNCHANGED <<cfg, i_epoch, k, trl, tel, train_loss, test_loss,
                   last_step_epoch, alreadyPlotting, stepEpochs, state, ret>>
    /\ UNCHANGED <<es, inf, eq, gb>>

\* lines 348-350
Finish ==
    /\ pc = "finish"
    /\ pc' = "returned"
    /\ ret' = <<train_loss, test_loss>>
    /\ UNCHANGED <<cfg, i_epoch, k, trl, tel, train_loss, test_loss,
                   last_step_epoch, alreadyPlotting, stepEpochs, state, exc>>
    /\ UNCHANGED <<es, inf, eq, gb>>

NextTrain ==
    \/ ForEpoch
    \/ TrainBatches
    \/ EvalMass
    \/ AppendTrain
    \/ AppendTest
    \/ SchedulerStep
    \/ UpdateLossPlot
    \/ EarlyStopCheck
    \/ InterruptInTry
    \/ InterruptOutsideTry
    \/ Finish

\* the variables of train while another operation is examined
TrainIdle ==
    /\ cfg = <<>>
    /\ pc = "idle"
    /\ i_epoch = 0
    /\ k = 0
    /\ trl = <<>>
    /\ tel = <<>>
    /\ train_loss = <<>>
    /\ test_loss = <<>>
    /\ last_step_epoch = 0
    /\ alreadyPlotting = FALSE
    /\ stepEpochs = <<>>
    /\ state = "idle"
    /\ exc = "none"
    /\ ret = <<>>

Spec == InitTrain /\ [][NextTrain]_vars

\* ------------------------------------------- shouldEarlyStop on its own
\* one loss value per mass point
Records(vals, n) == [1..n -> vals]

ESArgs ==
    [train_masses : {<<5>>}, vals : {0..3},
     min_epoch : MinEpochs, grace_epochs : 0..MaxGrace, tol : Tols]
    \cup
    [train_masses : {<<5, 10>>}, vals : {1..2},
     min_epoch : MinEpochs, grace_epochs : 0..MaxGrace, tol : Tols]

InitES ==
    /\ TrainIdle /\ inf = Idle /\ eq = Idle /\ gb = Idle
    /\ \E a \in ESArgs : es = [op |-> "shouldEarlyStop", args |-> a,
                               losses |-> <<>>, result |-> "none"]

\* the history grows by one record, as in train, and the policy is asked
ESCall ==
    /\ Len(es.losses) < MaxHist
    /\ \E rec \in Records(es.args.vals, Len(es.args.train_masses)) :
          LET losses == Append(es.losses, rec)
          IN es' = [es EXCEPT !.losses = losses,
                              !.result = shouldEarlyStop(es.args.train_masses, losses,
                                  es.args.min_epoch, es.args.grace_epochs, es.args.tol)]
    /\ UNCHANGED <<trainVars, inf, eq, gb>>

SpecEarlyStop == InitES /\ [][ESCall]_vars

\* ------------------------------------------- Model.inflateBkgWithMasses
\* s[mask] : the elements of s at the positions where mask holds, in order
RECURSIVE Where(_, _)
Where(s, mask) ==
    IF s = <<>> THEN <<>>
    ELSE (IF Head(mask) THEN <<Head(s)>> ELSE <<>>) \o Where(Tail(s), Tail(mask))

\* y == v
EqMask(y, v) == [j \in 1..Len(y) |-> y[j] = v]

\* X_bkg.copy() left as it is
WithMassUnchanged(X_bkg, m) == X_bkg

\* X_bkg.copy() with .loc[:, "mass"] = m
WithMass(X_bkg, m) == [j \in 1..Len(X_bkg) |-> [X_bkg[j] EXCEPT !.mass = m]]

\* pd.concat(blocks, ignore_index=True)
RECURSIVE Concat(_)
Concat(blocks) == IF blocks = <<>> THEN <<>> ELSE Head(blocks) \o Concat(Tail(blocks))

inflateBkgWithMasses(train_masses, X, y, w) ==
    LET X_sig == Where(X, EqMask(y, 1))
        y_sig == Where(y, EqMask(y, 1))
        w_sig == Where(w, EqMask(y, 1))
        X_bkg == Where(X, EqMask(y, 0))
        y_bkg == Where(y, EqMask(y, 0))
        w_bkg == Where(w, EqMask(y, 0))
        Xs == <<X_sig>> \o [i \in 1..Len(train_masses) |-> WithMass(X_bkg, train_masses[i])]
        ys == <<y_sig>> \o [i \in 1..Len(train_masses) |-> y_bkg]
        ws == <<w_sig>> \o [i \in 1..Len(train_masses) |-> w_bkg]
    IN [X |-> Concat(Xs), y |-> Concat(ys), w |-> Concat(ws)]

SeqsUpTo(S, n) == UNION {[1..m -> S] : m \in 0..n}

\* the configured mass points (0.5 and 1.0, in tenths), in either order
MassLists == {<<>>, <<5>>, <<5, 10>>, <<10, 5>>}

Events == [f : {1, 2}, mass : {5, 10}, y : {0, 1}, w : {1, 2}]

InitInflate ==
    /\ TrainIdle /\ es = Idle /\ eq = Idle /\ gb = Idle
    /\ \E tm \in MassLists, ev \in SeqsUpTo(Events, MaxRows) :
          inf = [op |-> "inflateBkgWithMasses", train_masses |-> tm,
                 X |-> [j \in 1..Len(ev) |-> [f |-> ev[j].f, mass |-> ev[j].mass]],
                 y |-> [j \in 1..Len(ev) |-> ev[j].y],
                 w |-> [j \in 1..Len(ev) |-> ev[j].w],
                 out |-> <<>>]

InflateCall ==
    /\ inf.out = <<>>
    /\ inf' = [inf EXCEPT !.out = <<inflateBkgWithMasses(inf.train_masses, inf.X, inf.y, inf.w)>>]
    /\ UNCHANGED <<trainVars, es, eq, gb>>

SpecInflate == InitInflate /\ [][InflateCall]_vars

\* ------------------------------------------------- Model.equaliseWeights
\* weights are exact fractions [n, d] in lowest terms, d > 0
RECURSIVE GCD(_, _)
GCD(a, b) == IF b = 0 THEN a ELSE GCD(b, a % b)

Frac(n, d) == LET g == GCD(IF n < 0 THEN -n ELSE n, d) IN [n |-> n \div g, d |-> d \div g]
FMul(a, b) == Frac(a.n * b.n, a.d * b.d)
FDiv(a, b) == Frac(a.n * b.d, a.d * b.n)
FAdd(a, b) == Frac(a.n * b.d + b.n * a.d, a.d * b.d)

\* sum(w[sel]) for a set sel of positions
RECURSIVE FSum(_, _)
FSum(w, sel) ==
    IF sel = {} THEN Frac(0, 1)
    ELSE LET j == CHOOSE x \in sel : TRUE IN FAdd(w[j], FSum(w, sel \ {j}))

\* (y == v) & (X[:,-1] == m)
ClassAtMass(Xm, y, v, m) == {j \in 1..Len(y) : y[j] = v /\ Xm[j] = m}
Class(y, v) == {j \in 1..Len(y) : y[j] = v}

\* w[sel] = w[sel] * (target / sum(w[sel])); with sel empty the quotient is
\* numpy's inf and nothing is assigned
RescaleTo(w, sel, target) ==
    IF sel = {} THEN w
    ELSE LET factor == FDiv(target, FSum(w, sel))
         IN [j \in 1..Len(w) |-> IF j \in sel THEN FMul(w[j], factor) ELSE w[j]]

\* lines 37-39 from the i-th mass point on
RECURSIVE EqualiseMasses(_, _, _, _, _, _)
EqualiseMasses(train_masses, i, Xm, w, y, avg_sig_sumw) ==
    IF i > Len(train_masses) THEN w
    ELSE LET m == train_masses[i]
             w1 == RescaleTo(w, ClassAtMass(Xm, y, 1, m), avg_sig_sumw)
             w2 == RescaleTo(w1, ClassAtMass(Xm, y, 0, m), avg_sig_sumw)
         IN EqualiseMasses(train_masses, i + 1, Xm, w2, y, avg_sig_sumw)

\* lines 35-39
EqualisedPerMass(train_masses, Xm, w, y) ==
    EqualiseMasses(train_masses, 1, Xm, w, y,
                   FDiv(FSum(w, Class(y, 1)), Frac(Len(train_masses), 1)))

\* Python's None, the default of norm; a given norm v is <<v>>
None == <<>>

\* equaliseWeights without the final rescaling of the background
equaliseWeights_SignalOnly(train_masses, Xm, w, y, norm) ==
    LET w1 == EqualisedPerMass(train_masses, Xm, w, y)
        nrm == IF norm = None THEN FSum(w1, Class(y, 1)) ELSE Frac(norm[1], 1)
    IN RescaleTo(w1, Class(y, 1), nrm)

\* Xm is the mass column X[:,-1]; norm is None or <<number>>
equaliseWeights(train_masses, Xm, w, y, norm) ==
    LET w1 == EqualisedPerMass(train_masses, Xm, w, y)
        nrm == IF norm = None THEN FSum(w1, Class(y, 1)) ELSE Frac(norm[1], 1)
        w2 == RescaleTo(w1, Class(y, 1), nrm)
    IN RescaleTo(w2, Class(y, 0), nrm)

TrainNorm == 1000
BDTNorm == 10000

WeightedEvents == [mass : {5, 10}, y : {0, 1}, w : {0, 1, 2}]

\* the documented precondition, as far as the code needs it: both classes are
\* present, and every group the code sums (a class, a class at a mass point)
\* is empty or has a positive weight sum
EqualisePrecondition(train_masses, ev) ==
    LET y == [j \in 1..Len(ev) |-> ev[j].y]
        Xm == [j \in 1..Len(ev) |-> ev[j].mass]
        sumw(sel) == SumSeq([j \in 1..Len(ev) |-> IF j \in sel THEN ev[j].w ELSE 0])
    IN /\ \A v \in {0, 1} : Class(y, v) # {} /\ sumw(Class(y, v)) > 0
       /\ \A v \in {0, 1}, i \in 1..Len(train_masses) :
             LET sel == ClassAtMass(Xm, y, v, train_masses[i])
             IN sel = {} \/ sumw(sel) > 0

InitEqualise ==
    /\ TrainIdle /\ es = Idle /\ inf = Idle /\ gb = Idle
    /\ \E tm \in {<<5>>, <<5, 10>>}, ev \in SeqsUpTo(WeightedEvents, MaxEvents),
          norm \in {None, <<1>>, <<TrainNorm>>, <<BDTNorm>>} :
          /\ EqualisePrecondition(tm, ev)
          /\ eq = [op |-> "equaliseWeights", train_masses |-> tm,
                   Xm |-> [j \in 1..Len(ev) |-> ev[j].mass],
                   y |-> [j \in 1..Len(ev) |-> ev[j].y],
                   w |-> [j \in 1..Len(ev) |-> Frac(ev[j].w, 1)],
                   norm |-> norm,
                   out |-> <<>>]

EqualiseCall ==
    /\ eq.out = <<>>
    /\ eq' = [eq EXCEPT !.out = <<equaliseWeights(eq.train_masses, eq.Xm, eq.w, eq.y, eq.norm)>>]
    /\ UNCHANGED <<trainVars, es, inf, gb>>

SpecEqualise == InitEqualise /\ [][EqualiseCall]_vars

\* --------------------------------------------------- ParamNN.getBatches
\* torch.tensor(v, dtype=torch.float) for an integer-valued float64 v with
\* 0 <= v < 2^25: single precision has a 24-bit significand, so above 2^24
\* only even integers exist and an odd v is rounded to the nearest one whose
\* significand is even
ToFloat32(v) ==
    IF v <= 2^24 \/ v % 2 = 0 THEN v
    ELSE IF ((v - 1) \div 2) % 2 = 0 THEN v - 1 ELSE v + 1

\* a slice that leaves out its last row
SliceShort(s, a, b) == SubSeq(s, a + 1, (IF a + b < Len(s) THEN a + b ELSE Len(s)) - 1)

\* Python's s[a:a+b] with 0-based a, on a sequence indexed from 1
Slice(s, a, b) == SubSeq(s, a + 1, IF a + b < Len(s) THEN a + b ELSE Len(s))

\* lines 186-192: the batch at i_picture, as the three tensors
Batch(X_sh, y_sh, w_sh, i_picture, batch_size) ==
    [X |-> [r \in 1..Len(Slice(X_sh, i_picture, batch_size)) |->
               [c \in 1..Len(Slice(X_sh, i_picture, batch_size)[r]) |->
                   ToFloat32(Slice(X_sh, i_picture, batch_size)[r][c])]],
     y |-> [r \in 1..Len(Slice(y_sh, i_picture, batch_size)) |->
               ToFloat32(Slice(y_sh, i_picture, batch_size)[r])],
     w |-> [r \in 1..Len(Slice(w_sh, i_picture, batch_size)) |->
               ToFloat32(Slice(w_sh, i_picture, batch_size)[r])]]

\* np.random.permutation(n): every bijection of 1..n
permutation(n) == {p \in [1..n -> 1..n] : \A a, b \in 1..n : p[a] = p[b] => a = b}

\* a value that float64 holds and float32 does not
Odd25 == 2^24 + 1

BatchEvents == [x : {1, Odd25}, y : {0, 1}, w : {2, Odd25}]

InitBatches ==
    /\ TrainIdle /\ es = Idle /\ inf = Idle /\ eq = Idle
    /\ \E ev \in SeqsUpTo(BatchEvents, MaxN), b \in 1..MaxBatch, sh \in BOOLEAN :
          gb = [op |-> "getBatches",
                X |-> [j \in 1..Len(ev) |-> <<ev[j].x>>],
                y |-> [j \in 1..Len(ev) |-> ev[j].y],
                w |-> [j \in 1..Len(ev) |-> ev[j].w],
                batch_size |-> b, shuffle |-> sh,
                pc |-> "start", X_sh |-> <<>>, y_sh |-> <<>>, w_sh |-> <<>>,
                i_picture |-> 0, batches |-> <<>>]

\* lines 176-184, run when the generator is first advanced
GetBatchesStart ==
    /\ gb.op = "getBatches" /\ gb.pc = "start"
    /\ \E p \in permutation(Len(gb.X)) :
          /\ gb.shuffle \/ p = [j \in 1..Len(gb.X) |-> j]
          /\ gb' = [gb EXCEPT !.pc = "loop",
                              !.X_sh = [j \in 1..Len(gb.X) |-> gb.X[p[j]]],
                              !.y_sh = [j \in 1..Len(gb.X) |-> gb.y[p[j]]],
                              !.w_sh = [j \in 1..Len(gb.X) |-> gb.w[p[j]]]]
    /\ UNCHANGED <<trainVars, es, inf, eq>>

\* lines 185-194: one iteration of range(0, len(X), batch_size)
YieldBatch ==
    /\ gb.op = "getBatches" /\ gb.pc = "loop"
    /\ gb.i_picture < Len(gb.X)
    /\ gb' = [gb EXCEPT !.batches = Append(gb.batches,
                            Batch(gb.X_sh, gb.y_sh, gb.w_sh, gb.i_picture, gb.batch_size)),
                        !.i_picture = gb.i_picture + gb.batch_size]
    /\ UNCHANGED <<trainVars, es, inf, eq>>

\* the range is exhausted: the generator stops
StopIteration ==
    /\ gb.op = "getBatches" /\ gb.pc = "loop"
    /\ gb.i_picture >= Len(gb.X)
    /\ gb' = [gb EXCEPT !.pc = "done"]
    /\ UNCHANGED <<trainVars, es, inf, eq>>

NextBatches == GetBatchesStart \/ YieldBatch \/ StopIteration

SpecBatches == InitBatches /\ [][NextBatches]_vars

\* ------------------------------------------------------------------ claims
Terminated == pc \in {"returned", "raised"}

\* C1: within one run of train, any two scheduler steps are more than 5 epochs
\* apart, and the first one comes at an epoch count greater than 5.
C1_SchedulerRateLimited ==
    \A a \in 1..Len(stepEpochs) :
        /\ stepEpochs[a] > 5
        /\ \A b \in (a+1)..Len(stepEpochs) : stepEpochs[b] - stepEpochs[a] > 5

C1_Witness == Len(stepEpochs) >= 2

\* C2: an interrupt arriving anywhere in the epoch loop never leaves train as
\* an exception; train ends Interrupted and returns both histories with every
\* record collected so far.
C2_InterruptHandledCleanly ==
    /\ exc # "KeyboardInterrupt"
    /\ (pc = "returned" /\ state = "Interrupted") => ret = <<train_loss, test_loss>>

\* C3: shouldEarlyStop is False on every history shorter than min_epoch, so no
\* run is in the EarlyStopped state with fewer than min_epoch epochs completed.
C3_NoEarlyStopBeforeMinEpoch ==
    /\ (pc = "earlystop" /\ Len(test_loss) < cfg.min_epoch) =>
           shouldEarlyStop(cfg.train_masses, test_loss, cfg.min_epoch,
                           cfg.grace_epochs, cfg.tol) = "False"
    /\ state = "EarlyStopped" =>
           /\ Len(test_loss) >= cfg.min_epoch
           /\ i_epoch + 1 >= cfg.min_epoch

C3_Witness ==
    /\ state = "EarlyStopped"
    /\ cfg.min_epoch >= 2
    /\ cfg.max_epochs >= cfg.min_epoch
    /\ Len(test_loss) = cfg.min_epoch

\* C5: every run that has ended has ended by returning, in exactly one of
\* EarlyStopped, MaxEpochsReached and Interrupted, after at most max_epochs
\* epochs; MaxEpochsReached means exactly max_epochs epochs were run; a
\* scheduler step leaves the loop running.
C5_ThreeTerminalStates ==
    /\ Terminated =>
          /\ pc = "returned"
          /\ exc = "none"
          /\ state \in {"EarlyStopped", "MaxEpochsReached", "Interrupted"}
          /\ Len(train_loss) <= cfg.max_epochs
    /\ state = "MaxEpochsReached" =>
          /\ Len(train_loss) = cfg.max_epochs
          /\ Len(test_loss) = cfg.max_epochs
    /\ (pc = "plot" /\ stepEpochs # <<>>) => state = "Running"

\* C6: whenever train returns, the two histories have the same number of
\* records, every record has one value per mass point, and a run that was
\* not interrupted returns one record per epoch it ran.
C6_OneRecordPerEpochPerSet ==
    pc = "returned" =>
        /\ Len(ret[1]) = Len(ret[2])
        /\ \A e \in 1..Len(ret[1]) : Len(ret[1][e]) = Len(cfg.train_masses)
        /\ \A e \in 1..Len(ret[2]) : Len(ret[2][e]) = Len(cfg.train_masses)
        /\ state # "Interrupted" => Len(ret[1]) = i_epoch + 1

\* the window the claims speak of: the last g records (all of them when the
\* history is shorter)
LastRecords(col, g) ==
    SubSeq(col, Len(col) - (IF g < Len(col) THEN g ELSE Len(col)) + 1, Len(col))

StrictlyDecreasingThenFlat(col) ==
    \E d \in 1..Len(col) :
        /\ \A j \in 1..(d-1) : col[j] > col[j+1]
        /\ \A j \in d..Len(col) : col[j] = col[d]

\* the number of records at the end of col that equal its last one
FlatRun(col) ==
    Cardinality({j \in 1..Len(col) : \A h \in j..Len(col) : col[h] = col[Len(col)]})

ESCalled == es.op = "shouldEarlyStop" /\ es.result # "none"

ESColumns == {Column(es.losses, i) : i \in 1..Len(es.args.train_masses)}

\* C4: on a history of at least min_epoch records in which every mass point's
\* loss fell strictly and has then been flat for more than grace_epochs
\* epochs, shouldEarlyStop returns True.
C4_FlatHistoryStops ==
    (/\ ESCalled
     /\ Len(es.losses) >= es.args.min_epoch
     /\ \A col \in ESColumns :
           StrictlyDecreasingThenFlat(col) /\ FlatRun(col) > es.args.grace_epochs)
    => es.result = "True"

\* C4 for grace_epochs >= 1 (not the claim: the part of it the code meets)
C4_FlatHistoryStopsPositiveGrace ==
    (/\ ESCalled
     /\ es.args.grace_epochs >= 1
     /\ Len(es.losses) >= es.args.min_epoch
     /\ \A col \in ESColumns :
           StrictlyDecreasingThenFlat(col) /\ FlatRun(col) > es.args.grace_epochs)
    => es.result = "True"

\* some mass point's loss range over the last grace_epochs records exceeds
\* tol times its best-ever loss
Unstable ==
    \E col \in ESColumns :
        LET window == LastRecords(col, es.args.grace_epochs)
        IN /\ window # <<>>
           /\ (MaxSeq(window) - MinSeq(window)) * es.args.tol.d
                  > es.args.tol.n * MinSeq(col)

Stale ==
    LET slosses == SumAxis1(es.losses)
    IN Len(es.losses) - FirstWhere(slosses, MinSeq(slosses)) > es.args.grace_epochs

\* C10: on a history of at least min_epoch records, shouldEarlyStop returns
\* False whenever some mass point is unstable over the last grace_epochs
\* records, whatever the staleness and stagnation checks would say.
C10_InstabilityDefersStop ==
    (ESCalled /\ Len(es.losses) >= es.args.min_epoch /\ Unstable)
    => es.result = "False"

C10_Witness ==
    /\ ESCalled
    /\ Len(es.losses) >= es.args.min_epoch
    /\ Unstable
    /\ Stale
    /\ es.result = "False"

\* the position in y of the r-th element equal to v
NthOf(y, v, r) ==
    CHOOSE j \in 1..Len(y) :
        y[j] = v /\ Cardinality({h \in 1..j : y[h] = v}) = r

InflateDone == inf.op = "inflateBkgWithMasses" /\ inf.out # <<>>

\* C7: inflateBkgWithMasses keeps the signal rows as they are and in front,
\* follows them with one copy of the background per mass point in
\* configuration order, each copy in the input's order and tagged with its
\* mass point; so the signal count is unchanged, the background count is
\* multiplied by the number of mass points, and each mass point tags exactly
\* the original background count of rows.
C7_InflateCountsAndOrder ==
    InflateDone =>
        LET o == inf.out[1]
            nsig == Cardinality(Class(inf.y, 1))
            nbkg == Cardinality(Class(inf.y, 0))
            tm == inf.train_masses
        IN /\ Len(o.X) = Len(o.y) /\ Len(o.w) = Len(o.y)
           /\ Cardinality(Class(o.y, 1)) = nsig
           /\ Cardinality(Class(o.y, 0)) = nbkg * Len(tm)
           /\ \A i \in 1..Len(tm) :
                 Cardinality({j \in Class(o.y, 0) : o.X[j].mass = tm[i]}) = nbkg
           /\ \A r \in 1..nsig :
                 /\ o.y[r] = 1
                 /\ o.X[r] = inf.X[NthOf(inf.y, 1, r)]
                 /\ o.w[r] = inf.w[NthOf(inf.y, 1, r)]
           /\ \A b \in 1..Len(tm), r \in 1..nbkg :
                 LET j == nsig + (b - 1) * nbkg + r
                 IN /\ o.y[j] = 0
                    /\ o.X[j].mass = tm[b]
                    /\ o.X[j].f = inf.X[NthOf(inf.y, 0, r)].f
                    /\ o.w[j] = inf.w[NthOf(inf.y, 0, r)]

C7_Witness ==
    /\ InflateDone
    /\ inf.train_masses = <<10, 5>>
    /\ inf.y = <<0, 1, 0>>
    /\ inf.X[1].mass = 5 /\ inf.X[3].mass = 5
    /\ Len(inf.out[1].y) = 5

EqualiseDone == eq.op = "equaliseWeights" /\ eq.out # <<>>

\* C8: after equaliseWeights the signal weights sum to norm and the
\* background weights sum to norm; a norm that is not given is the sum of
\* the signal weights after the per-mass step.
C8_WeightsSumToNorm ==
    EqualiseDone =>
        LET o == eq.out[1]
            norm == IF eq.norm = None
                    THEN FSum(EqualisedPerMass(eq.train_masses, eq.Xm, eq.w, eq.y),
                              Class(eq.y, 1))
                    ELSE Frac(eq.norm[1], 1)
        IN /\ FSum(o, Class(eq.y, 1)) = norm
           /\ FSum(o, Class(eq.y, 0)) = norm

C8_Witness ==
    /\ EqualiseDone
    /\ eq.norm = None
    /\ Len(eq.train_masses) = 2
    /\ FSum(eq.w, Class(eq.y, 1)) # FSum(eq.w, Class(eq.y, 0))
    /\ \E m \in {5, 10} : ClassAtMass(eq.Xm, eq.y, 0, m) = {}

BatchesDone == gb.op = "getBatches" /\ gb.pc = "done"

\* ceil(n / b) for b > 0
CeilDiv(n, b) == (n + b - 1) \div b

BatchSizesRight ==
    /\ Len(gb.batches) = CeilDiv(Len(gb.X), gb.batch_size)
    /\ \A i \in 1..Len(gb.batches) :
          /\ Len(gb.batches[i].y) = Len(gb.batches[i].X)
          /\ Len(gb.batches[i].w) = Len(gb.batches[i].X)
          /\ Len(gb.batches[i].X) >= 1
          /\ i < Len(gb.batches) => Len(gb.batches[i].X) = gb.batch_size
          /\ Len(gb.batches[i].X) <= gb.batch_size

AllX == Concat([i \in 1..Len(gb.batches) |-> gb.batches[i].X])
AllY == Concat([i \in 1..Len(gb.batches) |-> gb.batches[i].y])
AllW == Concat([i \in 1..Len(gb.batches) |-> gb.batches[i].w])

\* float32 holds v exactly (0 <= v < 2^25)
Float32Holds(v) == v <= 16777216 \/ v % 2 = 0

\* v in single precision, by the definition of rounding: the float32 value
\* nearest to v, the one with the even significand when two are as near
RoundedToSingle(v) ==
    IF Float32Holds(v) THEN v
    ELSE CHOOSE u \in {v - 1, v + 1} : u % 4 = 0

InputsHeld ==
    \A j \in 1..Len(gb.X) :
        Float32Holds(gb.X[j][1]) /\ Float32Holds(gb.y[j]) /\ Float32Holds(gb.w[j])

\* C9 as stated: without shuffling, ceil(N/B) batches come out, all but the
\* last of B rows, and their concatenation is X, y and w exactly.
C9_BatchesReconstructExactly ==
    (BatchesDone /\ ~gb.shuffle) =>
        /\ BatchSizesRight
        /\ AllX = gb.X /\ AllY = gb.y /\ AllW = gb.w

\* C9 as amended: without shuffling, ceil(N/B) batches come out, all but the
\* last of B rows, and their concatenation is X, y and w row by row with
\* every value rounded to single precision; it is X, y and w exactly when
\* single precision holds every value.
C9_BatchesReconstructInSinglePrecision ==
    (BatchesDone /\ ~gb.shuffle) =>
        /\ BatchSizesRight
        /\ Len(AllX) = Len(gb.X) /\ Len(AllY) = Len(gb.y) /\ Len(AllW) = Len(gb.w)
        /\ \A j \in 1..Len(gb.X) :
              /\ AllX[j] = <<RoundedToSingle(gb.X[j][1])>>
              /\ AllY[j] = RoundedToSingle(gb.y[j])
              /\ AllW[j] = RoundedToSingle(gb.w[j])
        /\ InputsHeld => (AllX = gb.X /\ AllY = gb.y /\ AllW = gb.w)

C9_Witness ==
    /\ BatchesDone /\ ~gb.shuffle
    /\ Len(gb.X) = 3 /\ gb.batch_size = 2
    /\ Len(gb.batches) = 2
    /\ gb.w[3] = 16777217
    /\ gb.batches[2].w = <<16777216>>

====
